---- MODULE Spec2Model ----
(***************************************************************************)
(* A model of the receiving endpoint of the GameNetAPI session protocol:   *)
(* GameServerProtocol (one instance per QUIC connection), the asyncio      *)
(* event loop that runs its tasks, and ReceiverApplication, whose          *)
(* on_message is the handler registered with every connection; and of      *)
(* the sending side, GameClientProtocol.send_packet with its frame codec   *)
(* and sequence counters.                                                  *)
(***************************************************************************)
EXTENDS Integers, Sequences, FiniteSets, TLC

(***************************************************************************)
(* Program constants.                                                      *)
(***************************************************************************)
RELIABLE == 1
UNRELIABLE == 0
TIMESTAMP_BYTES == 8
header_len == 1 + 2 + TIMESTAMP_BYTES
SeqModulus == 65536

(***************************************************************************)
(* Bounds of the model.                                                    *)
(***************************************************************************)
NumConns == 2
MaxSeq == 2
MaxClock == 1
MaxArrivals == 2
MaxStreamArrivals == 4
MaxSends == 4
MaxSamples == 3
MaxSessionSeq == 1
MaxRtt == 1

Conns == 1..NumConns
Seqs == 0..MaxSeq
Budgets == 0..(MaxSeq + 1)
ChannelNames == {"RELIABLE", "UNRELIABLE"}

VARIABLES
    reliable_buffer,  \* [conn -> dict seq_no -> <<data, timestamp>>]
    expected_seq,     \* [conn -> next expected reliable seq]
    next_ack_seq,     \* [conn -> seq of the next reliable frame sent]
    metrics,          \* [conn -> [channel -> protocol-level metrics]]
    app_metrics,      \* ReceiverApplication.metrics, one object for the server
    calls,            \* [conn -> the handler invocations, in order]
    sent,             \* [conn -> the frames handed to the transport, in order]
    ready,            \* the event loop's FIFO queue of runnable tasks
    suspended,        \* [conn -> [reliable -> tasks suspended in the handler]]
    stdout,           \* the last line printed
    now,              \* the wall clock, in milliseconds
    arrived,          \* [conn -> the transport events received, in order]
    transport_ok,     \* [conn -> the transport accepts what is sent on it]
    terminated,       \* [conn -> None, or the sequence numbers buffered when
                      \*  ConnectionTerminated was received]
    client_seq,       \* GameClientProtocol.seq, [channel -> next seq]
    client_sent,      \* the frames the client handed to its transport
    client_raised,    \* the client's last send_packet raised
    codec,            \* a frame on its way through encoder and parser
    is_client,        \* GameNetAPI.is_client
    connected,        \* GameNetAPI.connected
    api_pending,      \* the GameNetAPI coroutine that is suspended, if any
    api_outcome,      \* how the last GameNetAPI call ended
    api_phase,        \* "new"; "open" once a connect() has completed;
                      \* "closed" once a close() of the open API has completed
    client_tasks,     \* the tasks GameClientProtocol.quic_event_received has
                      \* created and that have not run, oldest first
    client_calls      \* the invocations of the client's on_message, in
                      \* order, each with the frame it was made for

server_vars == <<reliable_buffer, expected_seq, next_ack_seq, metrics,
                 app_metrics, calls, sent, ready, suspended, stdout, now,
                 arrived, transport_ok, terminated>>

api_vars == <<is_client, connected, api_pending, api_outcome, api_phase>>

client_recv_vars == <<client_tasks, client_calls>>

peer_vars == <<transport_ok, terminated, client_seq, client_sent,
               client_raised, codec, is_client, connected, api_pending,
               api_outcome, api_phase, client_tasks, client_calls>>

vars == <<reliable_buffer, expected_seq, next_ack_seq, metrics, app_metrics,
          calls, sent, ready, suspended, stdout, now, arrived, transport_ok,
          terminated, client_seq, client_sent, client_raised, codec,
          is_client, connected, api_pending, api_outcome, api_phase,
          client_tasks, client_calls>>

(***************************************************************************)
(* Bytes and payloads.                                                     *)
(***************************************************************************)
Abs(x) == IF x < 0 THEN -x ELSE x
Min(a, b) == IF a < b THEN a ELSE b

\* int.to_bytes(length, "big")
RECURSIVE to_bytes(_, _)
to_bytes(n, length) ==
    IF length = 0 THEN <<>>
    ELSE Append(to_bytes(n \div 256, length - 1), n % 256)

\* whether int.to_bytes(length, "big") raises OverflowError: n needs more
\* than length bytes
RECURSIVE to_bytes_overflows(_, _)
to_bytes_overflows(n, length) ==
    IF length = 0 THEN n > 0
    ELSE to_bytes_overflows(n \div 256, length - 1)

\* int.from_bytes(bs, "little")
RECURSIVE from_bytes_little(_)
from_bytes_little(bs) ==
    IF bs = <<>> THEN 0
    ELSE bs[1] + 256 * from_bytes_little(Tail(bs))

\* int.from_bytes(bs, "big")
RECURSIVE from_bytes(_)
from_bytes(bs) ==
    IF bs = <<>> THEN 0
    ELSE from_bytes(SubSeq(bs, 1, Len(bs) - 1)) * 256 + bs[Len(bs)]

\* the Python slice bs[lo:hi] (zero-based, clipped to the length)
Slice(bs, lo, hi) == SubSeq(bs, lo + 1, Min(hi, Len(bs)))

\* json.dumps(d).encode() for the payload values of the model, the natural
\* numbers, whose JSON text is their decimal digits in ASCII
RECURSIVE json_dumps(_)
json_dumps(d) ==
    IF d < 10 THEN <<48 + d>>
    ELSE Append(json_dumps(d \div 10), 48 + (d % 10))

\* whether json.loads(bs.decode()) succeeds: on a decimal number without a
\* leading zero, and not on the empty string or on an unbalanced "{"
json_ok(bs) ==
    /\ Len(bs) >= 1
    /\ \A i \in 1..Len(bs) : bs[i] \in 48..57
    /\ Len(bs) > 1 => bs[1] # 48

RECURSIVE json_loads(_)
json_loads(bs) ==
    IF bs = <<>> THEN 0
    ELSE json_loads(SubSeq(bs, 1, Len(bs) - 1)) * 10 + (bs[Len(bs)] - 48)

\* The frame a peer builds: channel tag, big-endian seq, big-endian
\* timestamp, payload.
EncodeFrame(channel, seq_no, timestamp, payload_bytes) ==
    <<channel>> \o to_bytes(seq_no, 2) \o to_bytes(timestamp, TIMESTAMP_BYTES)
        \o payload_bytes

(***************************************************************************)
(* The state as one record, so that a handler is a function of the state.  *)
(***************************************************************************)
EmptyDict == [k \in {} |-> <<>>]
None == <<>>

DictPut(d, k, v) == [x \in DOMAIN d \cup {k} |-> IF x = k THEN v ELSE d[x]]
DictDel(d, k) == [x \in DOMAIN d \ {k} |-> d[x]]

State ==
    [reliable_buffer |-> reliable_buffer, expected_seq |-> expected_seq,
     next_ack_seq |-> next_ack_seq, metrics |-> metrics,
     app_metrics |-> app_metrics, calls |-> calls, sent |-> sent,
     ready |-> ready, suspended |-> suspended, stdout |-> stdout]

Install(s) ==
    /\ reliable_buffer' = s.reliable_buffer
    /\ expected_seq' = s.expected_seq
    /\ next_ack_seq' = s.next_ack_seq
    /\ metrics' = s.metrics
    /\ app_metrics' = s.app_metrics
    /\ calls' = s.calls
    /\ sent' = s.sent
    /\ ready' = s.ready
    /\ suspended' = s.suspended
    /\ stdout' = s.stdout

Task(kind, c, reliable, packet, seq_echo) ==
    [kind |-> kind, conn |-> c, reliable |-> reliable, packet |-> packet,
     seq_echo |-> seq_echo]

ChannelOf(reliable) == IF reliable THEN RELIABLE ELSE UNRELIABLE

InitProtoMetrics ==
    [packets_received |-> 0, packets_sent |-> 0, last_rtt |-> None,
     rtt_samples |-> <<>>, jitter_samples |-> <<>>, bytes_received |-> 0,
     start_time |-> None]

InitChannelMetrics ==
    [packets_received |-> 0, packets_delivered |-> 0, bytes_received |-> 0,
     rtts |-> <<>>, jitter_samples |-> <<>>, last_rtt |-> None,
     start_time |-> None, last_seq |-> -1]

InitServer ==
    /\ reliable_buffer = [c \in Conns |-> EmptyDict]
    /\ expected_seq = [c \in Conns |-> 0]
    /\ next_ack_seq = [c \in Conns |-> 0]
    /\ metrics = [c \in Conns |-> [ch \in {RELIABLE, UNRELIABLE} |-> InitProtoMetrics]]
    /\ app_metrics = [n \in ChannelNames |-> InitChannelMetrics]
    /\ calls = [c \in Conns |-> <<>>]
    /\ sent = [c \in Conns |-> <<>>]
    /\ ready = <<>>
    /\ suspended = [c \in Conns |-> [r \in BOOLEAN |-> 0]]
    /\ stdout = ""
    /\ now = 0
    /\ arrived = [c \in Conns |-> <<>>]
    /\ transport_ok = [c \in Conns |-> TRUE]
    /\ terminated = [c \in Conns |-> None]

InitClient ==
    /\ client_seq = [ch \in {RELIABLE, UNRELIABLE} |-> 0]
    /\ client_sent = <<>>
    /\ client_raised = FALSE
    /\ client_tasks = <<>>
    /\ client_calls = <<>>

NoFrame == [stage |-> "none"]

\* GameNetAPI.__init__ but for the mode
InitApi ==
    /\ connected = FALSE
    /\ api_pending = "none"
    /\ api_outcome = ""
    /\ api_phase = "new"

Init ==
    /\ InitServer
    /\ InitClient
    /\ codec = NoFrame
    /\ is_client = TRUE
    /\ InitApi

(***************************************************************************)
(* GameServerProtocol.                                                     *)
(***************************************************************************)
update_metrics(s, c, channel, packet_size, timestamp) ==
    LET ch_metrics == s.metrics[c][channel]
        rtt == now - timestamp
    IN [s EXCEPT !.metrics[c][channel] =
            [ch_metrics EXCEPT
                !.start_time = IF @ = None THEN <<now>> ELSE @,
                !.packets_received = @ + 1,
                !.bytes_received = @ + packet_size,
                !.rtt_samples = Append(@, rtt),
                !.jitter_samples =
                    IF ch_metrics.last_rtt # None
                    THEN Append(@, Abs(rtt - ch_metrics.last_rtt[1]))
                    ELSE @]]

\* when the transport refuses the frame, send_stream_data or
\* send_datagram_frame raises before anything is counted
send_packet(s, c, data, reliable) ==
    LET seq_no == IF reliable THEN s.next_ack_seq[c] ELSE 0
        frame == [channel |-> ChannelOf(reliable), seq_no |-> seq_no,
                  timestamp |-> now, data |-> data]
    IN IF ~transport_ok[c] THEN s
       ELSE
       [s EXCEPT
            !.sent[c] = Append(@, frame),
            !.next_ack_seq[c] = IF reliable THEN (@ + 1) % SeqModulus ELSE @,
            !.metrics[c][ChannelOf(reliable)].packets_sent = @ + 1,
            !.stdout = "[SERVER-SEND]"]

(***************************************************************************)
(* ReceiverApplication.                                                    *)
(***************************************************************************)
\* add_rtt without "self.last_rtt = rtt_ms"
add_rtt_keeps_last(m, rtt_ms) ==
    [m EXCEPT
        !.rtts = Append(@, rtt_ms),
        !.jitter_samples =
            IF m.last_rtt # None THEN Append(@, Abs(rtt_ms - m.last_rtt[1])) ELSE @]

add_rtt(m, rtt_ms) ==
    [m EXCEPT
        !.rtts = Append(@, rtt_ms),
        !.jitter_samples =
            IF m.last_rtt # None THEN Append(@, Abs(rtt_ms - m.last_rtt[1])) ELSE @,
        !.last_rtt = <<rtt_ms>>]

\* deliver_packet without "metrics.packets_delivered += 1"
app_deliver_packet_uncounted(s, channel) ==
    [s EXCEPT !.stdout = "[APP-DATA]"]

app_deliver_packet(s, channel) ==
    [s EXCEPT !.app_metrics[channel].packets_delivered = @ + 1,
              !.stdout = "[APP-DATA]"]

on_message(s, c, data, reliable) ==
    LET channel == IF reliable THEN "RELIABLE" ELSE "UNRELIABLE"
        m == s.app_metrics[channel]
        rtt_ms == now - data.timestamp
        m1 == add_rtt([m EXCEPT !.start_time = IF @ = None THEN <<now>> ELSE @],
                      rtt_ms)
        out_of_order == data.seq_no <= m.last_seq /\ m.last_seq >= 0
        m2 == [m1 EXCEPT
                !.packets_received = @ + 1,
                !.bytes_received = @ + Len(json_dumps(data.payload)),
                !.last_seq = IF out_of_order THEN @ ELSE data.seq_no]
        s1 == [s EXCEPT
                !.app_metrics[channel] = m2,
                !.calls[c] = Append(@, [reliable |-> reliable,
                                        seq_no |-> data.seq_no,
                                        timestamp |-> data.timestamp,
                                        payload |-> data.payload,
                                        out_of_order |-> out_of_order])]
        response == [ack |-> "received", seq_echo |-> data.seq_no,
                     payload_echo |-> <<data.payload>>]
    IN IF ~transport_ok[c]
       THEN [s1 EXCEPT !.stdout = "Error in message callback:"]
       ELSE app_deliver_packet(send_packet(s1, c, response, reliable), channel)

(***************************************************************************)
(* GameServerProtocol, the delivery path.  yields: the awaited handler     *)
(* suspends, and the task waits in it until the event loop resumes it.     *)
(***************************************************************************)

\* _deliver_packet without the create_task that sends the acknowledgment
deliver_packet_no_ack(s, c, data, reliable, seq_no, timestamp, yields) ==
    LET rtt == now - timestamp
        s1 == [s EXCEPT !.metrics[c][ChannelOf(reliable)].last_rtt = <<rtt>>]
        formatted_data == [seq_no |-> seq_no, timestamp |-> timestamp,
                           payload |-> data]
        s2 == on_message(s1, c, formatted_data, reliable)
    IN IF yields THEN [s2 EXCEPT !.suspended[c][reliable] = @ + 1] ELSE s2

deliver_packet(s, c, data, reliable, seq_no, timestamp, yields) ==
    LET rtt == now - timestamp
        response_payload == [ack |-> "received", seq_echo |-> seq_no,
                             payload_echo |-> <<>>]
        s1 == [s EXCEPT
                !.metrics[c][ChannelOf(reliable)].last_rtt = <<rtt>>,
                !.ready = Append(@, Task("send_packet", c, reliable, <<>>, seq_no))]
        formatted_data == [seq_no |-> seq_no, timestamp |-> timestamp,
                           payload |-> data]
        s2 == on_message(s1, c, formatted_data, reliable)
    IN IF yields THEN [s2 EXCEPT !.suspended[c][reliable] = @ + 1] ELSE s2

\* deliver_reliable without "self.expected_seq += 1"
deliver_reliable_no_advance(s, c, budget) ==
    IF s.expected_seq[c] \notin DOMAIN s.reliable_buffer[c] THEN s
    ELSE LET e == s.expected_seq[c]
             entry == s.reliable_buffer[c][e]
             s1 == [s EXCEPT !.reliable_buffer[c] = DictDel(@, e)]
         IN deliver_packet(s1, c, entry[1], TRUE, e, entry[2], budget = 0)

\* deliver_reliable with "if" for "while": the frames buffered behind the
\* expected one are not drained
deliver_reliable_no_drain(s, c, budget) ==
    IF s.expected_seq[c] \notin DOMAIN s.reliable_buffer[c] THEN s
    ELSE LET e == s.expected_seq[c]
             entry == s.reliable_buffer[c][e]
             s1 == [s EXCEPT !.reliable_buffer[c] = DictDel(@, e)]
             s2 == deliver_packet(s1, c, entry[1], TRUE, e, entry[2], budget = 0)
         IN IF budget = 0 THEN s2 ELSE [s2 EXCEPT !.expected_seq[c] = @ + 1]

\* deliver_reliable with "self.expected_seq = (self.expected_seq + 1) % 65536"
RECURSIVE deliver_reliable_wrapping(_, _, _)
deliver_reliable_wrapping(s, c, budget) ==
    IF s.expected_seq[c] \notin DOMAIN s.reliable_buffer[c] THEN s
    ELSE LET e == s.expected_seq[c]
             entry == s.reliable_buffer[c][e]
             s1 == [s EXCEPT !.reliable_buffer[c] = DictDel(@, e)]
             s2 == deliver_packet(s1, c, entry[1], TRUE, e, entry[2], budget = 0)
         IN IF budget = 0 THEN s2
            ELSE deliver_reliable_wrapping(
                    [s2 EXCEPT !.expected_seq[c] = (@ + 1) % SeqModulus], c,
                    budget - 1)

\* deliver_reliable passing the time of delivery for the stored timestamp
RECURSIVE deliver_reliable_restamped(_, _, _)
deliver_reliable_restamped(s, c, budget) ==
    IF s.expected_seq[c] \notin DOMAIN s.reliable_buffer[c] THEN s
    ELSE LET e == s.expected_seq[c]
             entry == s.reliable_buffer[c][e]
             s1 == [s EXCEPT !.reliable_buffer[c] = DictDel(@, e)]
             s2 == deliver_packet(s1, c, entry[1], TRUE, e, now, budget = 0)
         IN IF budget = 0 THEN s2
            ELSE deliver_reliable_restamped([s2 EXCEPT !.expected_seq[c] = @ + 1],
                                            c, budget - 1)

\* deliver_reliable when _deliver_packet lets the handler's exception through:
\* the loop is left before "self.expected_seq += 1"
RECURSIVE deliver_reliable_uncaught(_, _, _)
deliver_reliable_uncaught(s, c, budget) ==
    IF s.expected_seq[c] \notin DOMAIN s.reliable_buffer[c] THEN s
    ELSE LET e == s.expected_seq[c]
             entry == s.reliable_buffer[c][e]
             s1 == [s EXCEPT !.reliable_buffer[c] = DictDel(@, e)]
             s2 == deliver_packet(s1, c, entry[1], TRUE, e, entry[2], budget = 0)
         IN IF budget = 0 \/ ~transport_ok[c] THEN s2
            ELSE deliver_reliable_uncaught([s2 EXCEPT !.expected_seq[c] = @ + 1],
                                           c, budget - 1)

RECURSIVE deliver_reliable(_, _, _)
deliver_reliable(s, c, budget) ==
    IF s.expected_seq[c] \notin DOMAIN s.reliable_buffer[c] THEN s
    ELSE LET e == s.expected_seq[c]
             entry == s.reliable_buffer[c][e]
             s1 == [s EXCEPT !.reliable_buffer[c] = DictDel(@, e)]
             s2 == deliver_packet(s1, c, entry[1], TRUE, e, entry[2], budget = 0)
         IN IF budget = 0 THEN s2
            ELSE deliver_reliable([s2 EXCEPT !.expected_seq[c] = @ + 1], c,
                                  budget - 1)

\* _handle_packet with one step misplaced or added:
\*   "counts_first"       _update_metrics runs before the length check
\*   "counts_undecodable" _update_metrics runs before the payload is decoded
\*   "drops_stale"        an unreliable frame whose seq is not above the last
\*                        one delivered is discarded
handle_packet_variant(s, c, packet, reliable, budget, v) ==
    LET channel == packet[1]
        seq_no == from_bytes(Slice(packet, 1, 3))
        timestamp == from_bytes(Slice(packet, 3, 3 + TIMESTAMP_BYTES))
        payload_bytes == Slice(packet, 3 + TIMESTAMP_BYTES, Len(packet))
        counted == update_metrics(s, c, channel, Len(packet), timestamp)
    IN IF Len(packet) < header_len
       THEN [(IF v = "counts_first" THEN counted ELSE s)
                EXCEPT !.stdout = "Malformed packet received"]
       ELSE IF ~json_ok(payload_bytes)
       THEN [(IF v = "counts_first" \/ v = "counts_undecodable" THEN counted ELSE s)
                EXCEPT !.stdout = "Failed to decode JSON:"]
       ELSE IF channel \notin {RELIABLE, UNRELIABLE}
       THEN s
       ELSE LET data == json_loads(payload_bytes)
            IN IF reliable
               THEN deliver_reliable(
                       [counted EXCEPT !.reliable_buffer[c] =
                           DictPut(@, seq_no, <<data, timestamp>>)],
                       c, budget)
               ELSE IF v = "drops_stale"
                       /\ seq_no <= s.app_metrics["UNRELIABLE"].last_seq
               THEN counted
               ELSE deliver_packet(counted, c, data, FALSE, seq_no, timestamp,
                                   budget = 0)

handle_packet_counts_first(s, c, packet, reliable, budget) ==
    handle_packet_variant(s, c, packet, reliable, budget, "counts_first")

handle_packet_counts_undecodable(s, c, packet, reliable, budget) ==
    handle_packet_variant(s, c, packet, reliable, budget, "counts_undecodable")

handle_packet_drops_stale(s, c, packet, reliable, budget) ==
    handle_packet_variant(s, c, packet, reliable, budget, "drops_stale")

handle_packet(s, c, packet, reliable, budget) ==
    IF Len(packet) < header_len
    THEN [s EXCEPT !.stdout = "Malformed packet received"]
    ELSE LET channel == packet[1]
             seq_no == from_bytes(Slice(packet, 1, 3))
             timestamp == from_bytes(Slice(packet, 3, 3 + TIMESTAMP_BYTES))
             payload_bytes == Slice(packet, 3 + TIMESTAMP_BYTES, Len(packet))
         IN IF ~json_ok(payload_bytes)
            THEN [s EXCEPT !.stdout = "Failed to decode JSON:"]
            ELSE IF channel \notin {RELIABLE, UNRELIABLE}
            THEN s
            ELSE LET data == json_loads(payload_bytes)
                     s1 == update_metrics(s, c, channel, Len(packet), timestamp)
                 IN IF reliable
                    THEN deliver_reliable(
                            [s1 EXCEPT !.reliable_buffer[c] =
                                DictPut(@, seq_no, <<data, timestamp>>)],
                            c, budget)
                    ELSE deliver_packet(s1, c, data, FALSE, seq_no, timestamp,
                                        budget = 0)

\* a resumed task that advances expected_seq and ends without going round
\* the loop of _deliver_reliable again
resume_delivery_once(s, c, reliable, budget) ==
    IF reliable THEN [s EXCEPT !.expected_seq[c] = @ + 1] ELSE s

\* the rest of a task that was suspended in the handler
resume_delivery(s, c, reliable, budget) ==
    IF reliable
    THEN deliver_reliable([s EXCEPT !.expected_seq[c] = @ + 1], c, budget)
    ELSE s

(***************************************************************************)
(* The frames a peer can put on the wire.                                  *)
(***************************************************************************)
\* a well-formed frame, as GameClientProtocol.send_packet builds it
GoodFrame(channel, seq_no) == EncodeFrame(channel, seq_no, 0, json_dumps(0))

\* five bytes: shorter than the header
ShortFrame == SubSeq(GoodFrame(RELIABLE, 0), 1, 5)

\* a full header followed by the text "{", which is no JSON document
BadPayloadFrame(channel) == EncodeFrame(channel, 0, 0, <<123>>)

GoodFrames(reliable) == {GoodFrame(ChannelOf(reliable), q) : q \in Seqs}

Frames(reliable) ==
    GoodFrames(reliable) \cup {ShortFrame, BadPayloadFrame(ChannelOf(reliable))}

\* what _handle_packet reads in a packet
WellFormed(packet) ==
    /\ Len(packet) >= header_len
    /\ json_ok(Slice(packet, 3 + TIMESTAMP_BYTES, Len(packet)))
    /\ packet[1] \in {RELIABLE, UNRELIABLE}

SeqOf(packet) == from_bytes(Slice(packet, 1, 3))
StampOf(packet) == from_bytes(Slice(packet, 3, 3 + TIMESTAMP_BYTES))
DataOf(packet) == json_loads(Slice(packet, 3 + TIMESTAMP_BYTES, Len(packet)))

RECURSIVE SumLen(_, _)
SumLen(f, n) == IF n = 0 THEN 0 ELSE Len(f[n]) + SumLen(f, n - 1)

TotalArrivals == SumLen(arrived, NumConns)

\* no arrival-handling task of the connection is queued, running or suspended
Quiescent(c) ==
    /\ \A i \in 1..Len(ready) :
          ready[i].conn = c => ready[i].kind = "send_packet"
    /\ \A r \in BOOLEAN : suspended[c][r] = 0

TheConn == CHOOSE c \in Conns : TRUE

(***************************************************************************)
(* Actions.                                                                *)
(***************************************************************************)
\* the transport hands an event to the protocol, which creates a task for it
quic_event_received(c, packet, reliable) ==
    /\ ready' = Append(ready, Task("_handle_packet", c, reliable, packet, 0))
    /\ arrived' = [arrived EXCEPT ![c] = Append(@, [reliable |-> reliable,
                                                    packet |-> packet])]
    /\ UNCHANGED <<reliable_buffer, expected_seq, next_ack_seq, metrics,
                   app_metrics, calls, sent, suspended, stdout, now>>
    /\ UNCHANGED peer_vars

Popped == [State EXCEPT !.ready = Tail(ready)]

\* the event loop runs the task at the head of its queue up to the point
\* where it ends or suspends
RunHandlePacket ==
    /\ ready # <<>>
    /\ Head(ready).kind = "_handle_packet"
    /\ \E budget \in Budgets :
          Install(handle_packet(Popped, Head(ready).conn, Head(ready).packet,
                                Head(ready).reliable, budget))
    /\ UNCHANGED <<now, arrived>>
    /\ UNCHANGED peer_vars

RunSendPacket ==
    /\ ready # <<>>
    /\ Head(ready).kind = "send_packet"
    /\ Install(send_packet(Popped, Head(ready).conn,
                           [ack |-> "received",
                            seq_echo |-> Head(ready).seq_echo,
                            payload_echo |-> <<>>],
                           Head(ready).reliable))
    /\ UNCHANGED <<now, arrived>>
    /\ UNCHANGED peer_vars

RunResume ==
    /\ ready # <<>>
    /\ Head(ready).kind = "resume"
    /\ \E budget \in Budgets :
          Install(resume_delivery(Popped, Head(ready).conn,
                                  Head(ready).reliable, budget))
    /\ UNCHANGED <<now, arrived>>
    /\ UNCHANGED peer_vars

\* what a suspended handler waited for happens: its task is runnable again
Wake(c, reliable) ==
    /\ suspended[c][reliable] > 0
    /\ suspended' = [suspended EXCEPT ![c][reliable] = @ - 1]
    /\ ready' = Append(ready, Task("resume", c, reliable, <<>>, 0))
    /\ UNCHANGED <<reliable_buffer, expected_seq, next_ack_seq, metrics,
                   app_metrics, calls, sent, stdout, now, arrived>>
    /\ UNCHANGED peer_vars

Tick ==
    /\ now < MaxClock
    /\ now' = now + 1
    /\ UNCHANGED <<reliable_buffer, expected_seq, next_ack_seq, metrics,
                   app_metrics, calls, sent, ready, suspended, stdout, arrived>>
    /\ UNCHANGED peer_vars

WakeAny == \E c \in Conns, reliable \in BOOLEAN : Wake(c, reliable)

(***************************************************************************)
(* Spec: every connection, both transport primitives, well-formed and      *)
(* malformed frames, a handler that may suspend, a clock that advances.    *)
(***************************************************************************)
Receive ==
    /\ TotalArrivals < MaxArrivals
    /\ \E c \in Conns, reliable \in BOOLEAN :
          \E packet \in Frames(reliable) :
              quic_event_received(c, packet, reliable)

Next ==
    \/ Receive
    \/ RunHandlePacket
    \/ RunSendPacket
    \/ RunResume
    \/ WakeAny
    \/ Tick

Spec == Init /\ [][Next]_vars

(***************************************************************************)
(* SpecStream: one connection receiving well-formed frames on the reliable *)
(* stream primitive, in any order, with gaps and duplicates; the arrival   *)
(* tasks interleave wherever the handler suspends.                         *)
(***************************************************************************)
ReceiveStream ==
    /\ TotalArrivals < MaxStreamArrivals
    /\ \E packet \in GoodFrames(TRUE) :
          quic_event_received(TheConn, packet, TRUE)

NextStream ==
    \/ ReceiveStream
    \/ RunHandlePacket
    \/ RunSendPacket
    \/ RunResume
    \/ WakeAny

SpecStream == Init /\ [][NextStream]_vars

(***************************************************************************)
(* SpecSerial: as SpecStream, but each arrival is handled to completion    *)
(* before the next one is received.                                        *)
(***************************************************************************)
ReceiveSerial ==
    /\ Quiescent(TheConn)
    /\ ReceiveStream

NextSerial ==
    \/ ReceiveSerial
    \/ RunHandlePacket
    \/ RunSendPacket
    \/ RunResume
    \/ WakeAny

SpecSerial == Init /\ [][NextSerial]_vars

(***************************************************************************)
(* SpecConn: one connection, both transport primitives, well-formed and    *)
(* malformed frames, a handler that may suspend.                           *)
(***************************************************************************)
ReceiveConn ==
    /\ TotalArrivals < MaxArrivals
    /\ \E reliable \in BOOLEAN :
          \E packet \in Frames(reliable) :
              quic_event_received(TheConn, packet, reliable)

NextConn ==
    \/ ReceiveConn
    \/ RunHandlePacket
    \/ RunSendPacket
    \/ RunResume
    \/ WakeAny

SpecConn == Init /\ [][NextConn]_vars

(***************************************************************************)
(* What the claims speak of.                                               *)
(***************************************************************************)
IsReliableCall(r) == r.reliable
IsUnreliableCall(r) == ~r.reliable
RelCalls(c) == SelectSeq(calls[c], IsReliableCall)
UnrelCalls(c) == SelectSeq(calls[c], IsUnreliableCall)

IsReliableArrival(a) == a.reliable /\ WellFormed(a.packet)
IsUnreliableArrival(a) == ~a.reliable /\ WellFormed(a.packet)
RelArrivals(c) == SelectSeq(arrived[c], IsReliableArrival)
UnrelArrivals(c) == SelectSeq(arrived[c], IsUnreliableArrival)

RelArrivedSeqs(c) == {SeqOf(RelArrivals(c)[i].packet) : i \in 1..Len(RelArrivals(c))}

NoRepeatedArrival(c) ==
    \A i, j \in 1..Len(RelArrivals(c)) :
        i # j => SeqOf(RelArrivals(c)[i].packet) # SeqOf(RelArrivals(c)[j].packet)

\* the least sequence number that is not in S
Mex(S) == CHOOSE m \in 0..Cardinality(S) : m \notin S /\ \A k \in 0..(m - 1) : k \in S

CallCount(c, q) == Cardinality({i \in 1..Len(RelCalls(c)) : RelCalls(c)[i].seq_no = q})

\* the next step runs an arrival task of connection c
HeadIsArrival(c) ==
    /\ ready # <<>>
    /\ Head(ready).kind = "_handle_packet"
    /\ Head(ready).conn = c

\* the step handled its frame without a trace: no callback, no acknowledgment
\* (neither sent nor scheduled), the reorder state and every counter as before
Dropped(c) ==
    /\ ready' = Tail(ready)
    /\ UNCHANGED <<reliable_buffer, expected_seq, next_ack_seq, metrics,
                   app_metrics, calls, sent, suspended>>

(***************************************************************************)
(* C1: when each reliable-channel arrival of a connection is handled to    *)
(* completion before the next is received, whatever the order, gaps and    *)
(* duplicates of the arrivals, the sequence numbers passed to the handler  *)
(* on the reliable channel are 0, 1, ..., m-1, in that order.              *)
(***************************************************************************)
C1_SerialDeliveryContiguous ==
    \A c \in Conns :
        \A i \in 1..Len(RelCalls(c)) : RelCalls(c)[i].seq_no = i - 1

\* every sequence number was delivered, after a first arrival that left a gap
\* and with a duplicate among the arrivals
C1_Witness ==
    /\ Len(RelCalls(TheConn)) = MaxSeq + 1
    /\ Len(arrived[TheConn]) > MaxSeq + 1
    /\ SeqOf(arrived[TheConn][1].packet) # 0

(***************************************************************************)
(* C2: when no reliable sequence number has arrived twice and every        *)
(* arrival has been handled, the handler has been invoked for exactly the  *)
(* sequence numbers below the first one missing, in increasing order, each *)
(* with the payload and timestamp of its frame, and the reorder buffer     *)
(* holds exactly the arrived frames beyond the gap.  So a permutation of   *)
(* 0..n yields the n+1 callbacks 0..n and an empty buffer, and arrivals    *)
(* 1, 2 yield no callback until 0 arrives.                                 *)
(***************************************************************************)
C2_PermutationDeliveredInOrder ==
    \A c \in Conns :
        (Quiescent(c) /\ NoRepeatedArrival(c)) =>
            LET m == Mex(RelArrivedSeqs(c))
            IN /\ Len(RelCalls(c)) = m
               /\ \A i \in 1..m :
                     /\ RelCalls(c)[i].seq_no = i - 1
                     /\ \E j \in 1..Len(RelArrivals(c)) :
                           /\ SeqOf(RelArrivals(c)[j].packet) = i - 1
                           /\ DataOf(RelArrivals(c)[j].packet) = RelCalls(c)[i].payload
                           /\ StampOf(RelArrivals(c)[j].packet) = RelCalls(c)[i].timestamp
               /\ DOMAIN reliable_buffer[c] = RelArrivedSeqs(c) \ (0..(m - 1))

\* arrival order 1, 2, 0: three callbacks and an empty buffer
C2_Witness ==
    /\ Quiescent(TheConn)
    /\ Len(RelArrivals(TheConn)) = 3
    /\ SeqOf(RelArrivals(TheConn)[1].packet) = 1
    /\ SeqOf(RelArrivals(TheConn)[2].packet) = 2
    /\ SeqOf(RelArrivals(TheConn)[3].packet) = 0
    /\ Len(RelCalls(TheConn)) = 3
    /\ reliable_buffer[TheConn] = EmptyDict

(***************************************************************************)
(* C3: arrival tasks of one connection that interleave while the handler   *)
(* is suspended deliver no reliable sequence number twice and skip none:   *)
(* the callbacks never repeat a sequence number, and once every arrival    *)
(* has been handled each sequence number below the first missing one has   *)
(* had its callback.                                                       *)
(***************************************************************************)
C3_NoRaceOnReorderState ==
    \A c \in Conns :
        /\ \A i, j \in 1..Len(RelCalls(c)) :
              i # j => RelCalls(c)[i].seq_no # RelCalls(c)[j].seq_no
        /\ Quiescent(c) =>
              \A q \in 0..(Mex(RelArrivedSeqs(c)) - 1) : CallCount(c, q) >= 1

(***************************************************************************)
(* C4: once a reliable sequence number has had its callback, no arrival,   *)
(* then or later, produces another callback for it.                        *)
(***************************************************************************)
C4_NoSecondCallback ==
    [][\A c \in Conns : \A q \in Seqs :
          CallCount(c, q) >= 1 => CallCount(c, q)' = CallCount(c, q)]_vars

(***************************************************************************)
(* C5: handling a reliable frame whose sequence number is below            *)
(* expected_seq leaves expected_seq and the reorder buffer as they were    *)
(* and produces no callback and no acknowledgment.                         *)
(***************************************************************************)
C5_LateFrameNoSideEffect ==
    [][\A c \in Conns :
          (/\ HeadIsArrival(c)
           /\ Head(ready).reliable
           /\ WellFormed(Head(ready).packet)
           /\ SeqOf(Head(ready).packet) < expected_seq[c]
           /\ RunHandlePacket)
          => /\ expected_seq'[c] = expected_seq[c]
             /\ reliable_buffer'[c] = reliable_buffer[c]
             /\ calls'[c] = calls[c]
             /\ sent'[c] = sent[c]
             /\ ready' = Tail(ready)]_vars

(***************************************************************************)
(* C6: the handler invocations on the unreliable channel are, in order,    *)
(* the well-formed unreliable frames whose arrival task has run: one       *)
(* invocation per arrival, with the frame's seq, timestamp and payload,    *)
(* none withheld, whatever the reliable channel's state.                   *)
(***************************************************************************)
PendingUnreliable(c) ==
    Cardinality({i \in 1..Len(ready) :
                    /\ ready[i].kind = "_handle_packet"
                    /\ ready[i].conn = c
                    /\ ~ready[i].reliable
                    /\ WellFormed(ready[i].packet)})

C6_UnreliablePassThrough ==
    \A c \in Conns :
        /\ Len(UnrelCalls(c)) + PendingUnreliable(c) = Len(UnrelArrivals(c))
        /\ \A i \in 1..Len(UnrelCalls(c)) :
              /\ UnrelCalls(c)[i].seq_no = SeqOf(UnrelArrivals(c)[i].packet)
              /\ UnrelCalls(c)[i].timestamp = StampOf(UnrelArrivals(c)[i].packet)
              /\ UnrelCalls(c)[i].payload = DataOf(UnrelArrivals(c)[i].packet)

\* two unreliable callbacks, the second for a sequence number not above the
\* first one's: a duplicate or a late frame, passed through all the same
C6_Witness ==
    /\ Len(UnrelCalls(TheConn)) = 2
    /\ UnrelCalls(TheConn)[2].seq_no <= UnrelCalls(TheConn)[1].seq_no
    /\ UnrelCalls(TheConn)[2].out_of_order

(***************************************************************************)
(* C7: an unreliable frame is flagged out of order exactly when an         *)
(* earlier unreliable frame of the same connection carried a sequence      *)
(* number at least as large.                                               *)
(***************************************************************************)
C7_OutOfOrderPerConnection ==
    \A c \in Conns :
        \A i \in 1..Len(UnrelCalls(c)) :
            UnrelCalls(c)[i].out_of_order <=>
                \E j \in 1..(i - 1) :
                    UnrelCalls(c)[j].seq_no >= UnrelCalls(c)[i].seq_no

(***************************************************************************)
(* C8: a step that handles no task of connection c changes nothing that c  *)
(* observes: its reorder state, its callbacks, its protocol metrics, and   *)
(* the application metrics its handler reads and reports.                  *)
(***************************************************************************)
ConnView(c) ==
    [expected_seq |-> expected_seq[c], reliable_buffer |-> reliable_buffer[c],
     metrics |-> metrics[c], calls |-> calls[c], sent |-> sent[c],
     app_metrics |-> app_metrics]

C8_NoCrossConnectionSharing ==
    [][\A c \in Conns :
          (ready = <<>> \/ Head(ready).conn # c) => ConnView(c)' = ConnView(c)]_vars

(***************************************************************************)
(* C9: handling a frame shorter than the header invokes no handler, sends  *)
(* and schedules no acknowledgment, and leaves expected_seq, the reorder   *)
(* buffer and every metrics counter unchanged.                             *)
(***************************************************************************)
C9_ShortFrameRejected ==
    [][\A c \in Conns :
          (/\ HeadIsArrival(c)
           /\ Len(Head(ready).packet) < header_len
           /\ RunHandlePacket)
          => Dropped(c)]_vars

\* a short frame was rejected and a frame that arrived after it was delivered
C9_Witness ==
    /\ Len(arrived[TheConn]) >= 2
    /\ Len(arrived[TheConn][1].packet) < header_len
    /\ Quiescent(TheConn)
    /\ Len(calls[TheConn]) = Len(arrived[TheConn]) - 1

(***************************************************************************)
(* C10: handling a frame with a full header and an undecodable payload     *)
(* invokes no handler, sends and schedules no acknowledgment, and leaves   *)
(* expected_seq, the reorder buffer and every metrics counter unchanged,   *)
(* so the sequence number it carries is not consumed.                      *)
(***************************************************************************)
C10_UndecodableFrameDropped ==
    [][\A c \in Conns :
          (/\ HeadIsArrival(c)
           /\ Len(Head(ready).packet) >= header_len
           /\ ~json_ok(Slice(Head(ready).packet, header_len, Len(Head(ready).packet)))
           /\ RunHandlePacket)
          => Dropped(c)]_vars

\* a reliable frame with seq 0 and an undecodable payload was dropped, and the
\* well-formed frame with seq 0 that arrived after it was delivered
C10_Witness ==
    /\ Len(arrived[TheConn]) >= 2
    /\ arrived[TheConn][1] = [reliable |-> TRUE, packet |-> BadPayloadFrame(RELIABLE)]
    /\ arrived[TheConn][2] = [reliable |-> TRUE, packet |-> GoodFrame(RELIABLE, 0)]
    /\ Quiescent(TheConn)
    /\ Len(RelCalls(TheConn)) = 1
    /\ RelCalls(TheConn)[1].seq_no = 0

(***************************************************************************)
(* SpecCodec: one frame through GameClientProtocol.send_packet's encoder   *)
(* and GameServerProtocol._handle_packet's parser, for field values on     *)
(* both sides of every byte boundary.                                      *)
(***************************************************************************)
CodecSeqs == {0, 1, 255, 256, SeqModulus - 1}
CodecStamps == {0, 255, 256, 65535, 65536, 16777216, 2147483647}
CodecPayloads == {0, 9, 10, 255}

\* header + payload, as the client builds them
client_encode(channel, seq_no, timestamp, data) ==
    to_bytes(channel, 1) \o to_bytes(seq_no, 2)
        \o to_bytes(timestamp, TIMESTAMP_BYTES) \o json_dumps(data)

\* the four fields _handle_packet reads in a packet
parse_packet(packet) ==
    [channel |-> packet[1],
     seq_no |-> from_bytes(Slice(packet, 1, 3)),
     timestamp |-> from_bytes(Slice(packet, 3, 3 + TIMESTAMP_BYTES)),
     payload |-> json_loads(Slice(packet, 3 + TIMESTAMP_BYTES, Len(packet)))]

InitCodec ==
    /\ InitServer
    /\ InitClient
    /\ is_client = TRUE
    /\ InitApi
    /\ \E channel \in {RELIABLE, UNRELIABLE}, seq_no \in CodecSeqs,
          timestamp \in CodecStamps, data \in CodecPayloads :
          codec = [stage |-> "input", channel |-> channel, seq_no |-> seq_no,
                   timestamp |-> timestamp, data |-> data, packet |-> <<>>,
                   parsed |-> <<>>]

CodecEncode ==
    /\ codec.stage = "input"
    /\ codec' = [codec EXCEPT
                    !.stage = "sent",
                    !.packet = client_encode(codec.channel, codec.seq_no,
                                             codec.timestamp, codec.data)]
    /\ UNCHANGED <<reliable_buffer, expected_seq, next_ack_seq, metrics,
                   app_metrics, calls, sent, ready, suspended, stdout, now,
                   arrived, transport_ok, terminated, client_seq, client_sent,
                   client_raised>>
    /\ UNCHANGED api_vars
    /\ UNCHANGED client_recv_vars

CodecParse ==
    /\ codec.stage = "sent"
    /\ Len(codec.packet) >= header_len
    /\ json_ok(Slice(codec.packet, header_len, Len(codec.packet)))
    /\ codec' = [codec EXCEPT !.stage = "parsed",
                              !.parsed = <<parse_packet(codec.packet)>>]
    /\ UNCHANGED <<reliable_buffer, expected_seq, next_ack_seq, metrics,
                   app_metrics, calls, sent, ready, suspended, stdout, now,
                   arrived, transport_ok, terminated, client_seq, client_sent,
                   client_raised>>
    /\ UNCHANGED api_vars
    /\ UNCHANGED client_recv_vars

NextCodec ==
    \/ CodecEncode
    \/ CodecParse

SpecCodec == InitCodec /\ [][NextCodec]_vars

(***************************************************************************)
(* C11: the bytes the sender builds for channel c, seq s, timestamp t and  *)
(* payload p are one byte c, two bytes s big-endian, eight bytes t         *)
(* big-endian and the payload text, and the receiver parses them back      *)
(* into exactly (c, s, t, p).                                              *)
(***************************************************************************)
C11_CodecRoundTrip ==
    /\ codec.stage \in {"sent", "parsed"} =>
          /\ Len(codec.packet) = header_len + Len(json_dumps(codec.data))
          /\ codec.packet[1] = codec.channel
          /\ codec.packet[2] * 256 + codec.packet[3] = codec.seq_no
          /\ \A i \in 1..Len(codec.packet) : codec.packet[i] \in 0..255
    /\ codec.stage = "parsed" =>
          codec.parsed[1] = [channel |-> codec.channel, seq_no |-> codec.seq_no,
                             timestamp |-> codec.timestamp,
                             payload |-> codec.data]

\* a frame whose seq, timestamp and payload each take more than one byte
\* was encoded and parsed
C11_Witness ==
    /\ codec.stage = "parsed"
    /\ codec.seq_no = SeqModulus - 1
    /\ codec.timestamp = 2147483647
    /\ codec.data = 255

(***************************************************************************)
(* SpecClient: GameClientProtocol sending frames on both channels.  The    *)
(* session is observed from its start or from the point where a channel    *)
(* has sent all but the last two of its first 65536 frames; client_sent    *)
(* holds the frames sent from then on.                                     *)
(***************************************************************************)
ClientStartSeqs == {0, SeqModulus - 2}
ClientPayloads == {0, 1}

InitClientSession ==
    /\ InitServer
    /\ codec = NoFrame
    /\ is_client = TRUE
    /\ InitApi
    /\ client_seq \in [{RELIABLE, UNRELIABLE} -> ClientStartSeqs]
    /\ client_sent = <<>>
    /\ client_raised = FALSE
    /\ client_tasks = <<>>
    /\ client_calls = <<>>

\* GameClientProtocol.send_packet: seq_no.to_bytes(2, "big") raises when the
\* counter no longer fits, before anything is sent or counted
client_send_packet(data, reliable) ==
    LET channel == ChannelOf(reliable)
        seq_no == client_seq[channel]
    IN IF to_bytes_overflows(seq_no, 2)
       THEN /\ client_raised' = TRUE
            /\ UNCHANGED <<client_seq, client_sent>>
       ELSE /\ client_sent' = Append(client_sent,
                                    [reliable |-> reliable,
                                     packet |-> client_encode(channel, seq_no,
                                                              now, data)])
            /\ client_seq' = [client_seq EXCEPT ![channel] = @ + 1]
            /\ client_raised' = FALSE

ClientSend(data, reliable) ==
    /\ Len(client_sent) < MaxSends
    /\ client_send_packet(data, reliable)
    /\ UNCHANGED server_vars
    /\ UNCHANGED codec
    /\ UNCHANGED api_vars
    /\ UNCHANGED client_recv_vars

NextClient == \E data \in ClientPayloads, reliable \in BOOLEAN : ClientSend(data, reliable)

SpecClient == InitClientSession /\ [][NextClient]_vars

\* the frames the client has sent on a channel, in order
ClientSentOn(reliable) ==
    LET OnChannel(f) == f.reliable = reliable
    IN SelectSeq(client_sent, OnChannel)

(***************************************************************************)
(* C12: the send sequence counter wraps at 65536: when the last frame a    *)
(* connection sent on a channel carried seq 65535, the next send on that   *)
(* channel succeeds and its frame carries seq 0.                           *)
(***************************************************************************)
C12_SendSeqWraps ==
    [][\A reliable \in BOOLEAN, data \in ClientPayloads :
          (/\ ClientSentOn(reliable) # <<>>
           /\ SeqOf(ClientSentOn(reliable)[Len(ClientSentOn(reliable))].packet)
                 = SeqModulus - 1
           /\ ClientSend(data, reliable))
          => /\ ~client_raised'
             /\ Len(ClientSentOn(reliable)') = Len(ClientSentOn(reliable)) + 1
             /\ SeqOf(ClientSentOn(reliable)'[Len(ClientSentOn(reliable)')].packet)
                   = 0]_vars

\* the frames a connection's protocol has sent on a channel, in order
SentOn(c, channel) ==
    LET OnChannel(f) == f.channel = channel
    IN SelectSeq(sent[c], OnChannel)

(***************************************************************************)
(* C13: on each channel, reliable and unreliable, every frame the server   *)
(* endpoint sends on a connection carries the seq of the frame it sent     *)
(* before on that channel plus one, modulo 65536.                          *)
(***************************************************************************)
C13_ServerSeqIncreasing ==
    \A c \in Conns : \A channel \in {RELIABLE, UNRELIABLE} :
        \A i \in 2..Len(SentOn(c, channel)) :
            SentOn(c, channel)[i].seq_no
                = (SentOn(c, channel)[i - 1].seq_no + 1) % SeqModulus

\* the seq_echo fields of a sequence of frames or tasks
Echoes(fs) == [i \in 1..Len(fs) |-> fs[i].seq_echo]

\* the acknowledgments _deliver_packet has had sent on a channel
AcksSent(c, reliable) ==
    LET IsAck(f) == f.data.payload_echo = None
    IN Echoes([i \in 1..Len(SelectSeq(SentOn(c, ChannelOf(reliable)), IsAck)) |->
                 SelectSeq(SentOn(c, ChannelOf(reliable)), IsAck)[i].data])

\* the echoes ReceiverApplication.on_message has sent on a channel
EchoesSent(c, reliable) ==
    LET IsEcho(f) == f.data.payload_echo # None
    IN Echoes([i \in 1..Len(SelectSeq(SentOn(c, ChannelOf(reliable)), IsEcho)) |->
                 SelectSeq(SentOn(c, ChannelOf(reliable)), IsEcho)[i].data])

\* the acknowledgments whose sending task has been created and has not run
AcksScheduled(c, reliable) ==
    LET IsSend(k) == k.kind = "send_packet" /\ k.conn = c /\ k.reliable = reliable
    IN Echoes(SelectSeq(ready, IsSend))

\* the sequence numbers delivered to the handler on a channel, in order
DeliveredSeqs(c, reliable) ==
    LET OnChannel(r) == r.reliable = reliable
    IN [i \in 1..Len(SelectSeq(calls[c], OnChannel)) |->
           SelectSeq(calls[c], OnChannel)[i].seq_no]

(***************************************************************************)
(* C14: on each channel the acknowledgments a connection has sent,         *)
(* followed by those whose sending is scheduled, echo exactly the          *)
(* sequence numbers delivered on that channel, in order, each with         *)
(* ack = "received": every delivery has its acknowledgment, sent once the  *)
(* event loop has run its task, and a frame that is buffered, late or      *)
(* malformed has none.                                                     *)
(***************************************************************************)
C14_AckPerDelivery ==
    \A c \in Conns :
        /\ \A reliable \in BOOLEAN :
              /\ AcksSent(c, reliable) \o AcksScheduled(c, reliable)
                    = DeliveredSeqs(c, reliable)
              /\ EchoesSent(c, reliable) = DeliveredSeqs(c, reliable)
        /\ \A i \in 1..Len(sent[c]) : sent[c][i].data.ack = "received"

\* a reliable frame is buffered behind a gap and a datagram was delivered:
\* the datagram's acknowledgment has been sent, and nothing on the reliable
\* channel
C14_Witness ==
    /\ Len(arrived[TheConn]) = 2
    /\ DOMAIN reliable_buffer[TheConn] = {1}
    /\ ready = <<>>
    /\ AcksSent(TheConn, FALSE) = <<0>>
    /\ SentOn(TheConn, RELIABLE) = <<>>

(***************************************************************************)
(* SpecFaulty: as SpecConn, with a transport that may start to refuse      *)
(* what the connection sends on it.                                        *)
(***************************************************************************)
TransportFails(c) ==
    /\ transport_ok[c]
    /\ transport_ok' = [transport_ok EXCEPT ![c] = FALSE]
    /\ UNCHANGED <<reliable_buffer, expected_seq, next_ack_seq, metrics,
                   app_metrics, calls, sent, ready, suspended, stdout, now,
                   arrived, terminated, client_seq, client_sent, client_raised,
                   codec>>
    /\ UNCHANGED api_vars
    /\ UNCHANGED client_recv_vars

NextFaulty ==
    \/ ReceiveConn
    \/ RunHandlePacket
    \/ RunSendPacket
    \/ RunResume
    \/ WakeAny
    \/ TransportFails(TheConn)

SpecFaulty == Init /\ [][NextFaulty]_vars

\* the handler invocations on a channel, over all connections
HandlerCalls(reliable) ==
    SumLen([c \in Conns |-> DeliveredSeqs(c, reliable)], NumConns)

(***************************************************************************)
(* C15: whether or not the transport accepts the acknowledgments, every    *)
(* frame handed to the handler is delivered to the application: on each    *)
(* channel packets_delivered counts the handler invocations, and the       *)
(* well-formed unreliable arrivals handled so far have all been handed to  *)
(* the handler.                                                            *)
(***************************************************************************)
C15_AckBestEffort ==
    /\ app_metrics["RELIABLE"].packets_delivered = HandlerCalls(TRUE)
    /\ app_metrics["UNRELIABLE"].packets_delivered = HandlerCalls(FALSE)
    /\ \A c \in Conns :
          Len(UnrelCalls(c)) + PendingUnreliable(c) = Len(UnrelArrivals(c))

(***************************************************************************)
(* SpecClosing: as SpecConn, until the transport reports the connection    *)
(* terminated; no event arrives after that one, but the tasks created for  *)
(* the events before it are still run.                                     *)
(***************************************************************************)
\* quic_event_received on ConnectionTerminated: a line is printed
ConnectionTerminated(c) ==
    /\ terminated[c] = None
    /\ terminated' = [terminated EXCEPT ![c] = <<DOMAIN reliable_buffer[c]>>]
    /\ stdout' = "Connection terminated by client"
    /\ UNCHANGED <<reliable_buffer, expected_seq, next_ack_seq, metrics,
                   app_metrics, calls, sent, ready, suspended, now, arrived,
                   transport_ok, client_seq, client_sent, client_raised, codec>>
    /\ UNCHANGED api_vars
    /\ UNCHANGED client_recv_vars

ReceiveOpen ==
    /\ terminated[TheConn] = None
    /\ ReceiveConn

NextClosing ==
    \/ ReceiveOpen
    \/ RunHandlePacket
    \/ RunSendPacket
    \/ RunResume
    \/ WakeAny
    \/ ConnectionTerminated(TheConn)

SpecClosing == Init /\ [][NextClosing]_vars

(***************************************************************************)
(* C16: once ConnectionTerminated has been received on a connection, its   *)
(* reorder buffer is empty, no step delivers a reliable frame that was     *)
(* buffered at that moment, and no step changes the connection's metrics.  *)
(***************************************************************************)
C16_TeardownOnTermination ==
    [][\A c \in Conns :
          /\ terminated'[c] # None => reliable_buffer'[c] = EmptyDict
          /\ terminated[c] # None =>
                /\ \A i \in (Len(calls[c]) + 1)..Len(calls'[c]) :
                      calls'[c][i].reliable => calls'[c][i].seq_no \notin terminated[c][1]
                /\ metrics'[c] = metrics[c]]_vars

\* no arrival task of the connection is waiting to be run
NoArrivalPending(c) ==
    \A i \in 1..Len(ready) :
        ready[i].conn = c => ready[i].kind # "_handle_packet"

(***************************************************************************)
(* C17: while the reliable frame with sequence number g has not arrived,   *)
(* no reliable frame with a sequence number above g has been delivered,    *)
(* however many of them have arrived: once their arrival tasks have run    *)
(* they are all in the reorder buffer.                                     *)
(***************************************************************************)
C17_GapStarvation ==
    \A c \in Conns : \A g \in Seqs :
        g \notin RelArrivedSeqs(c) =>
            /\ \A i \in 1..Len(RelCalls(c)) : RelCalls(c)[i].seq_no < g
            /\ NoArrivalPending(c) =>
                  \A q \in RelArrivedSeqs(c) :
                      q > g => q \in DOMAIN reliable_buffer[c]

(***************************************************************************)
(* SpecRtt: ChannelMetrics.add_rtt applied to the two channels' metrics    *)
(* with any sequence of RTT values; a sender clock ahead of the            *)
(* receiver's gives negative ones.                                         *)
(***************************************************************************)
Rtts == (-MaxRtt)..MaxRtt

AddRtt(name, rtt_ms) ==
    /\ Len(app_metrics[name].rtts) < MaxSamples
    /\ app_metrics' = [app_metrics EXCEPT ![name] = add_rtt(@, rtt_ms)]
    /\ UNCHANGED <<reliable_buffer, expected_seq, next_ack_seq, metrics, calls,
                   sent, ready, suspended, stdout, now, arrived>>
    /\ UNCHANGED peer_vars

NextRtt == \E name \in ChannelNames, rtt_ms \in Rtts : AddRtt(name, rtt_ms)

SpecRtt == Init /\ [][NextRtt]_vars

(***************************************************************************)
(* C18: after any sequence of add_rtt calls on a channel, jitter_samples   *)
(* has max(0, len(rtts) - 1) entries, its i-th entry is the absolute       *)
(* difference of the (i+1)-th and the i-th RTT sample, and last_rtt is     *)
(* the most recent RTT sample (None before the first).                     *)
(***************************************************************************)
C18_AppJitterLaw ==
    \A name \in ChannelNames :
        LET m == app_metrics[name]
        IN /\ Len(m.jitter_samples)
                 = IF m.rtts = <<>> THEN 0 ELSE Len(m.rtts) - 1
           /\ \A i \in 1..Len(m.jitter_samples) :
                 m.jitter_samples[i] = Abs(m.rtts[i + 1] - m.rtts[i])
           /\ m.last_rtt = IF m.rtts = <<>> THEN None ELSE <<m.rtts[Len(m.rtts)]>>

\* a channel with as many samples as the model allows, the last two of them
\* different
C18_Witness ==
    LET m == app_metrics["UNRELIABLE"]
    IN /\ Len(m.rtts) = MaxSamples
       /\ m.jitter_samples[Len(m.jitter_samples)] > 0

(***************************************************************************)
(* C19: in the protocol-level metrics of each channel of a connection,     *)
(* jitter_samples has max(0, len(rtt_samples) - 1) entries and its i-th    *)
(* entry is the absolute difference of the (i+1)-th and the i-th RTT       *)
(* sample, whatever has arrived, frames buffered ahead of expected_seq     *)
(* included.                                                               *)
(***************************************************************************)
C19_ProtocolJitterLaw ==
    \A c \in Conns : \A channel \in {RELIABLE, UNRELIABLE} :
        LET m == metrics[c][channel]
        IN /\ Len(m.jitter_samples)
                 = IF m.rtt_samples = <<>> THEN 0 ELSE Len(m.rtt_samples) - 1
           /\ \A i \in 1..Len(m.jitter_samples) :
                 m.jitter_samples[i] = Abs(m.rtt_samples[i + 1] - m.rtt_samples[i])

(***************************************************************************)
(* SpecSession: a client sends the frames 0..MaxSessionSeq on each channel *)
(* of one connection; every frame arrives exactly once, in any order       *)
(* within and across the channels.  The handler is                         *)
(* ReceiverApplication.on_message, which awaits nothing that suspends, so  *)
(* an arrival task runs to its end.                                        *)
(***************************************************************************)
SessionSeqs == 0..MaxSessionSeq

SessionArrival(reliable, q) ==
    [reliable |-> reliable, packet |-> GoodFrame(ChannelOf(reliable), q)]

HasArrived(reliable, q) ==
    \E i \in 1..Len(arrived[TheConn]) :
        arrived[TheConn][i] = SessionArrival(reliable, q)

ReceiveSession ==
    \E reliable \in BOOLEAN, q \in SessionSeqs :
        /\ ~HasArrived(reliable, q)
        /\ quic_event_received(TheConn, GoodFrame(ChannelOf(reliable), q), reliable)

\* more handler invocations than one task can make in a session
SessionBudget == MaxSessionSeq + 2

RunHandlePacketThrough ==
    /\ ready # <<>>
    /\ Head(ready).kind = "_handle_packet"
    /\ Install(handle_packet(Popped, Head(ready).conn, Head(ready).packet,
                             Head(ready).reliable, SessionBudget))
    /\ UNCHANGED <<now, arrived>>
    /\ UNCHANGED peer_vars

NextSession ==
    \/ ReceiveSession
    \/ RunHandlePacketThrough
    \/ RunSendPacket

SpecSession == Init /\ [][NextSession]_vars

SessionOver ==
    /\ \A reliable \in BOOLEAN, q \in SessionSeqs : HasArrived(reliable, q)
    /\ Quiescent(TheConn)

(***************************************************************************)
(* C20: when the N frames 0..N-1 of each channel have all arrived on one   *)
(* connection, in whatever order, and have been handled, the application   *)
(* metrics of each channel report packets_delivered = N and                *)
(* packets_received = packets_delivered.                                   *)
(***************************************************************************)
C20_AllDeliveredOnce ==
    SessionOver =>
        \A name \in ChannelNames :
            /\ app_metrics[name].packets_delivered = MaxSessionSeq + 1
            /\ app_metrics[name].packets_received
                  = app_metrics[name].packets_delivered

\* the session is over, its reliable frames having arrived highest first
\* and after the first datagram
C20_Witness ==
    /\ SessionOver
    /\ ~arrived[TheConn][1].reliable
    /\ RelArrivals(TheConn)[1] = SessionArrival(TRUE, MaxSessionSeq)
    /\ app_metrics["RELIABLE"].packets_delivered = MaxSessionSeq + 1

(***************************************************************************)
(* SpecApi: one GameNetAPI object, in client or in server mode, whose      *)
(* methods are called in any order; connect() and close() suspend in the   *)
(* transport and complete in a later step, and send() may be called        *)
(* meanwhile.                                                              *)
(***************************************************************************)
InitApiAny ==
    /\ InitServer
    /\ InitClient
    /\ codec = NoFrame
    /\ is_client \in BOOLEAN
    /\ InitApi

\* send() without the test of self.connected
api_send_unguarded(data, reliable) ==
    /\ client_send_packet(data, reliable)
    /\ api_outcome' = IF client_raised' THEN "OverflowError" ELSE "sent"

\* GameNetAPI.send
api_send(data, reliable) ==
    IF ~connected
    THEN /\ api_outcome' = "RuntimeError"
         /\ UNCHANGED <<client_seq, client_sent, client_raised>>
    ELSE /\ client_send_packet(data, reliable)
         /\ api_outcome' = IF client_raised' THEN "OverflowError" ELSE "sent"

ApiSend(data, reliable) ==
    /\ Len(client_sent) < MaxSends
    /\ api_send(data, reliable)
    /\ UNCHANGED <<is_client, connected, api_pending, api_phase>>
    /\ UNCHANGED server_vars
    /\ UNCHANGED codec
    /\ UNCHANGED client_recv_vars

\* GameNetAPI.connect up to "await self._connect_ctx.__aenter__()"
ApiConnect ==
    /\ api_pending = "none"
    /\ IF ~is_client
       THEN /\ api_outcome' = "RuntimeError"
            /\ UNCHANGED api_pending
       ELSE /\ api_pending' = "connect"
            /\ api_outcome' = ""
    /\ UNCHANGED <<is_client, connected, api_phase, client_seq, client_sent,
                   client_raised>>
    /\ UNCHANGED server_vars
    /\ UNCHANGED codec
    /\ UNCHANGED client_recv_vars

\* the rest of connect: a new GameClientProtocol is in self.conn
ApiConnected ==
    /\ api_pending = "connect"
    /\ api_pending' = "none"
    /\ connected' = TRUE
    /\ api_phase' = "open"
    /\ api_outcome' = "connected"
    /\ client_seq' = [ch \in {RELIABLE, UNRELIABLE} |-> 0]
    /\ client_sent' = <<>>
    /\ client_raised' = FALSE
    /\ UNCHANGED is_client
    /\ UNCHANGED server_vars
    /\ UNCHANGED codec
    /\ UNCHANGED client_recv_vars

\* GameNetAPI.close up to "await self._connect_ctx.__aexit__(...)"
ApiClose ==
    /\ api_pending = "none"
    /\ IF ~connected
       THEN /\ api_outcome' = "returned"
            /\ UNCHANGED api_pending
       ELSE /\ api_pending' = "close"
            /\ api_outcome' = ""
    /\ UNCHANGED <<is_client, connected, api_phase, client_seq, client_sent,
                   client_raised>>
    /\ UNCHANGED server_vars
    /\ UNCHANGED codec
    /\ UNCHANGED client_recv_vars

\* the rest of close
ApiClosed ==
    /\ api_pending = "close"
    /\ api_pending' = "none"
    /\ connected' = FALSE
    /\ api_phase' = "closed"
    /\ api_outcome' = "closed"
    /\ UNCHANGED <<is_client, client_seq, client_sent, client_raised>>
    /\ UNCHANGED server_vars
    /\ UNCHANGED codec
    /\ UNCHANGED client_recv_vars

\* GameNetAPI.start_server: in server mode it never returns
ApiStartServer ==
    /\ api_pending = "none"
    /\ IF is_client
       THEN /\ api_outcome' = "RuntimeError"
            /\ UNCHANGED api_pending
       ELSE /\ api_pending' = "serve"
            /\ api_outcome' = ""
    /\ UNCHANGED <<is_client, connected, api_phase, client_seq, client_sent,
                   client_raised>>
    /\ UNCHANGED server_vars
    /\ UNCHANGED codec
    /\ UNCHANGED client_recv_vars

ApiSendAny == \E data \in ClientPayloads, reliable \in BOOLEAN : ApiSend(data, reliable)

NextApi ==
    \/ ApiSendAny
    \/ ApiConnect
    \/ ApiConnected
    \/ ApiClose
    \/ ApiClosed
    \/ ApiStartServer

SpecApi == InitApiAny /\ [][NextApi]_vars

\* what a GameNetAPI call can change, but for the outcome of the call
ApiState == <<is_client, connected, api_pending, api_phase, client_seq,
              client_sent, client_raised>>

(***************************************************************************)
(* C21: before a connect() has completed and after a close() has, send()   *)
(* raises RuntimeError, transmits nothing and consumes no sequence         *)
(* number, and close() returns without any effect; connect() in server     *)
(* mode and start_server() in client mode raise RuntimeError and change    *)
(* nothing.                                                                *)
(***************************************************************************)
C21_ApiLifecycle ==
    [][/\ \A data \in ClientPayloads, reliable \in BOOLEAN :
             (api_phase \in {"new", "closed"} /\ ApiSend(data, reliable))
             => /\ api_outcome' = "RuntimeError"
                /\ ApiState' = ApiState
       /\ (api_phase \in {"new", "closed"} /\ ApiClose)
             => /\ api_outcome' = "returned"
                /\ ApiState' = ApiState
       /\ (~is_client /\ ApiConnect)
             => /\ api_outcome' = "RuntimeError"
                /\ ApiState' = ApiState
       /\ (is_client /\ ApiStartServer)
             => /\ api_outcome' = "RuntimeError"
                /\ ApiState' = ApiState]_vars

\* a send was refused after the API had been connected, had sent a frame
\* and had been closed
C21_Witness ==
    /\ api_phase = "closed"
    /\ api_outcome = "RuntimeError"
    /\ Len(client_sent) = 1
    /\ client_seq[RELIABLE] = 1

(***************************************************************************)
(* SpecWrap: as SpecStream, observed from the point where the connection   *)
(* has delivered the reliable frames 0..65534; the sender's counter wraps, *)
(* so the frames that arrive carry 65535, 0, 1.  The metrics and the logs  *)
(* hold what happens from then on.                                         *)
(***************************************************************************)
WrapSeqs == {SeqModulus - 1, 0, 1}

InitWrap ==
    /\ reliable_buffer = [c \in Conns |-> EmptyDict]
    /\ expected_seq = [c \in Conns |-> IF c = TheConn THEN SeqModulus - 1 ELSE 0]
    /\ next_ack_seq = [c \in Conns |->
                          IF c = TheConn THEN (2 * (SeqModulus - 1)) % SeqModulus
                          ELSE 0]
    /\ metrics = [c \in Conns |-> [ch \in {RELIABLE, UNRELIABLE} |-> InitProtoMetrics]]
    /\ app_metrics = [n \in ChannelNames |->
                         IF n = "RELIABLE"
                         THEN [InitChannelMetrics EXCEPT !.last_seq = SeqModulus - 2]
                         ELSE InitChannelMetrics]
    /\ calls = [c \in Conns |-> <<>>]
    /\ sent = [c \in Conns |-> <<>>]
    /\ ready = <<>>
    /\ suspended = [c \in Conns |-> [r \in BOOLEAN |-> 0]]
    /\ stdout = ""
    /\ now = 0
    /\ arrived = [c \in Conns |-> <<>>]
    /\ transport_ok = [c \in Conns |-> TRUE]
    /\ terminated = [c \in Conns |-> None]
    /\ InitClient
    /\ codec = NoFrame
    /\ is_client = TRUE
    /\ InitApi

ReceiveWrap ==
    /\ TotalArrivals < MaxStreamArrivals
    /\ \E q \in WrapSeqs :
          quic_event_received(TheConn, GoodFrame(RELIABLE, q), TRUE)

NextWrap ==
    \/ ReceiveWrap
    \/ RunHandlePacket
    \/ RunSendPacket
    \/ RunResume
    \/ WakeAny

SpecWrap == InitWrap /\ [][NextWrap]_vars

(***************************************************************************)
(* C22: once a connection has delivered the reliable frame 65535, the      *)
(* frames of the sender's wrapped counter (0, 1, ...) are never delivered: *)
(* every later reliable callback, if any, is again for 65535, and when     *)
(* all arrivals have been handled expected_seq is beyond 65535 and the     *)
(* wrapped frames that arrived sit in the reorder buffer.                  *)
(***************************************************************************)
C22_WrapStallsDelivery ==
    \A c \in Conns :
        /\ \A i, j \in 1..Len(RelCalls(c)) :
              (i < j /\ RelCalls(c)[i].seq_no = SeqModulus - 1)
              => RelCalls(c)[j].seq_no = SeqModulus - 1
        /\ (Quiescent(c) /\ CallCount(c, SeqModulus - 1) >= 1) =>
              /\ expected_seq[c] >= SeqModulus
              /\ \A q \in RelArrivedSeqs(c) :
                    q < SeqModulus - 1 => q \in DOMAIN reliable_buffer[c]

\* 65535 was delivered, then 0 and 1 arrived and are buffered for good
C22_Witness ==
    /\ Quiescent(TheConn)
    /\ Len(RelCalls(TheConn)) = 1
    /\ RelCalls(TheConn)[1].seq_no = SeqModulus - 1
    /\ SeqOf(arrived[TheConn][1].packet) = SeqModulus - 1
    /\ DOMAIN reliable_buffer[TheConn] = {0, 1}
    /\ expected_seq[TheConn] = SeqModulus

(***************************************************************************)
(* SpecClientSends: a GameClientProtocol from its construction, sending on *)
(* both channels over a transport that may refuse a frame.                 *)
(***************************************************************************)
\* send_packet whose transport call raises, with the counter stepped all the same
client_send_refused_counts(data, reliable) ==
    /\ client_raised' = TRUE
    /\ client_seq' = [client_seq EXCEPT ![ChannelOf(reliable)] = @ + 1]
    /\ UNCHANGED client_sent

\* GameClientProtocol.send_packet when send_stream_data / send_datagram_frame
\* raises: the exception leaves the coroutine before "self.seq[channel] += 1"
client_send_refused(data, reliable) ==
    /\ client_raised' = TRUE
    /\ UNCHANGED <<client_seq, client_sent>>

ClientSendRefused(data, reliable) ==
    /\ ~client_raised
    /\ client_send_refused(data, reliable)
    /\ UNCHANGED server_vars
    /\ UNCHANGED codec
    /\ UNCHANGED api_vars
    /\ UNCHANGED client_recv_vars

NextClientSends ==
    \E data \in ClientPayloads, reliable \in BOOLEAN :
        \/ ClientSend(data, reliable)
        \/ ClientSendRefused(data, reliable)

SpecClientSends == Init /\ [][NextClientSends]_vars

(***************************************************************************)
(* C23: on the client endpoint the frames sent on a channel carry the      *)
(* sequence numbers 0, 1, 2, ... in the order sent, each channel counting  *)
(* on its own, and the channel's counter equals the number of frames sent  *)
(* on it: a send whose transport call raises consumes no sequence number.  *)
(***************************************************************************)
C23_ClientSeqConsecutive ==
    \A reliable \in BOOLEAN :
        /\ \A i \in 1..Len(ClientSentOn(reliable)) :
              SeqOf(ClientSentOn(reliable)[i].packet) = i - 1
        /\ client_seq[ChannelOf(reliable)] = Len(ClientSentOn(reliable))

\* a refused send after two reliable frames and one unreliable frame
C23_Witness ==
    /\ client_raised
    /\ Len(ClientSentOn(TRUE)) = 2
    /\ Len(ClientSentOn(FALSE)) = 1
    /\ client_sent[2].reliable = FALSE

(***************************************************************************)
(* SpecBuffered: one connection's reliable stream, whose frames differ in  *)
(* payload and timestamp as well as in seq; the handler may suspend.       *)
(***************************************************************************)
MaxBufferedArrivals == 3

\* <<payload, timestamp>> of the frames on the wire
FrameContents == {<<0, 1>>, <<1, 0>>}

ReceiveBuffered ==
    /\ TotalArrivals < MaxBufferedArrivals
    /\ \E q \in Seqs, v \in FrameContents :
          quic_event_received(TheConn,
                              EncodeFrame(RELIABLE, q, v[2], json_dumps(v[1])),
                              TRUE)

NextBuffered ==
    \/ ReceiveBuffered
    \/ RunHandlePacket
    \/ RunSendPacket
    \/ RunResume
    \/ WakeAny

SpecBuffered == Init /\ [][NextBuffered]_vars

\* the reliable callbacks for seq q among those from the n-th on
CallsFrom(cs, n, q) ==
    {i \in n..Len(cs) : cs[i].reliable /\ cs[i].seq_no = q}

C25_AckBeforeHandler ==
    \A c \in Conns, reliable \in BOOLEAN :
        /\ Len(DeliveredSeqs(c, reliable)) <= Len(AcksSent(c, reliable))
        /\ \A k \in 1..Len(DeliveredSeqs(c, reliable)) :
              AcksSent(c, reliable)[k] = DeliveredSeqs(c, reliable)[k]

(***************************************************************************)
(* C26: in the protocol's metrics of a channel, every frame counted in     *)
(* packets_received adds its payload length, the frame length minus the    *)
(* 11 header bytes, to bytes_received, and start_time is set when the      *)
(* first frame is counted and never changes afterwards.                    *)
(***************************************************************************)
C26_BytesReceivedIsPayloadSum ==
    [][\A c \in Conns, ch \in {RELIABLE, UNRELIABLE} :
          /\ (/\ RunHandlePacket
               /\ Head(ready).conn = c
               /\ metrics'[c][ch].packets_received
                     = metrics[c][ch].packets_received + 1)
              => metrics'[c][ch].bytes_received
                    = metrics[c][ch].bytes_received
                      + Len(Head(ready).packet) - header_len
          /\ metrics[c][ch].start_time # None
              => metrics'[c][ch].start_time = metrics[c][ch].start_time
          /\ (metrics'[c][ch].start_time # None)
                <=> (metrics'[c][ch].packets_received > 0)]_vars

(***************************************************************************)
(* SpecClientRecv: GameClientProtocol receiving the frames of a server.    *)
(* The server sends every reliable frame on a stream of its own, so the    *)
(* transport may complete the streams in any order, each once; datagrams   *)
(* arrive in any number, and may be short or undecodable.                  *)
(***************************************************************************)
MaxClientArrivals == 3

\* the seqs of the reliable frames that have reached the client
ClientStreamSeqs ==
    {SeqOf(client_tasks[i].data) : i \in {k \in 1..Len(client_tasks) :
                                            client_tasks[k].reliable}}
    \cup {SeqOf(client_calls[i].frame) : i \in {k \in 1..Len(client_calls) :
                                                 client_calls[k].reliable}}

\* GameClientProtocol.quic_event_received
client_event_received(data, reliable) ==
    /\ client_tasks' = Append(client_tasks, [reliable |-> reliable, data |-> data])
    /\ UNCHANGED client_calls

\* _handle_stream_data / _handle_datagram: the header is skipped, not read
client_handle(data, reliable) ==
    IF Len(data) < header_len THEN client_calls
    ELSE IF ~json_ok(Slice(data, header_len, Len(data))) THEN client_calls
    ELSE Append(client_calls,
                [reliable |-> reliable,
                 payload |-> json_loads(Slice(data, header_len, Len(data))),
                 frame |-> data])

ClientReceive ==
    /\ Len(client_tasks) + Len(client_calls) < MaxClientArrivals
    /\ \/ \E q \in Seqs \ ClientStreamSeqs, p \in ClientPayloads :
             client_event_received(EncodeFrame(RELIABLE, q, 0, json_dumps(p)), TRUE)
       \/ \E p \in ClientPayloads :
             client_event_received(EncodeFrame(UNRELIABLE, 0, 0, json_dumps(p)), FALSE)
       \/ \E data \in {ShortFrame, BadPayloadFrame(UNRELIABLE)} :
             client_event_received(data, FALSE)
    /\ UNCHANGED server_vars
    /\ UNCHANGED <<client_seq, client_sent, client_raised, codec>>
    /\ UNCHANGED api_vars

ClientRunTask ==
    /\ client_tasks # <<>>
    /\ client_calls' = client_handle(Head(client_tasks).data,
                                     Head(client_tasks).reliable)
    /\ client_tasks' = Tail(client_tasks)
    /\ UNCHANGED server_vars
    /\ UNCHANGED <<client_seq, client_sent, client_raised, codec>>
    /\ UNCHANGED api_vars

NextClientRecv ==
    \/ ClientReceive
    \/ ClientRunTask

SpecClientRecv == Init /\ [][NextClientRecv]_vars

(***************************************************************************)
(* C27: the reliable frames a client receives from the server are passed   *)
(* to the client's callback in strictly increasing order of their seq,     *)
(* in whatever order the streams that carry them complete.                 *)
(***************************************************************************)
C27_ClientReliableOrdered ==
    \A i, j \in 1..Len(client_calls) :
        (i < j /\ client_calls[i].reliable /\ client_calls[j].reliable)
        => SeqOf(client_calls[i].frame) < SeqOf(client_calls[j].frame)

(***************************************************************************)
(* C28: whenever no arrival-handling task of a connection is queued,       *)
(* running or suspended, expected_seq is not a key of the connection's     *)
(* reorder buffer: what became deliverable has been delivered.             *)
(***************************************************************************)
C28_DrainComplete ==
    \A c \in Conns :
        Quiescent(c) => expected_seq[c] \notin DOMAIN reliable_buffer[c]

\* frames 2 and 1 were buffered, frame 0 arrived last and the buffer was
\* drained behind it
C28_Witness ==
    /\ Quiescent(TheConn)
    /\ Len(arrived[TheConn]) = 3
    /\ SeqOf(arrived[TheConn][1].packet) = 2
    /\ SeqOf(arrived[TheConn][2].packet) = 1
    /\ SeqOf(arrived[TheConn][3].packet) = 0
    /\ DeliveredSeqs(TheConn, TRUE) = <<0, 1, 2>>
    /\ expected_seq[TheConn] = 3
    /\ reliable_buffer[TheConn] = EmptyDict

(***************************************************************************)
(* C29: an exception of the application handler does not stall reliable    *)
(* delivery.  When the frame with the expected seq is handled while the    *)
(* handler raises (its send is refused) and no handler suspends, the pass  *)
(* invokes the handler for the expected seq and for every frame buffered   *)
(* contiguously behind it, once each and in order, expected_seq ends       *)
(* beyond all of them and is not a buffer key, and the exception is        *)
(* reported.  No step ever invokes the handler for a seq below             *)
(* expected_seq, so a seq that was passed is not delivered again.          *)
(***************************************************************************)
C29_HandlerErrorNoStall ==
    [][\A c \in Conns :
          LET old == Len(RelCalls(c))
              n == Len(RelCalls(c)') - old
          IN /\ (/\ RunHandlePacket
                  /\ Head(ready).conn = c
                  /\ Head(ready).reliable
                  /\ WellFormed(Head(ready).packet)
                  /\ SeqOf(Head(ready).packet) = expected_seq[c]
                  /\ ~transport_ok[c]
                  /\ suspended' = suspended)
                 => /\ n >= 1
                    /\ expected_seq'[c] = expected_seq[c] + n
                    /\ \A k \in 1..n :
                          RelCalls(c)'[old + k].seq_no = expected_seq[c] + k - 1
                    /\ expected_seq'[c] \notin DOMAIN reliable_buffer'[c]
                    /\ stdout' = "Error in message callback:"
             /\ \A k \in 1..n :
                   RelCalls(c)'[old + k].seq_no >= expected_seq[c]]_vars

\* the transport refuses sends; frame 1 was buffered, frame 0 arrived, and
\* the handler was invoked for 0 and for 1 although it raised each time
C29_Witness ==
    /\ ~transport_ok[TheConn]
    /\ sent[TheConn] = <<>>
    /\ Quiescent(TheConn)
    /\ DeliveredSeqs(TheConn, TRUE) = <<0, 1>>
    /\ SeqOf(arrived[TheConn][1].packet) = 1
    /\ app_metrics["RELIABLE"].packets_delivered = 0
    /\ expected_seq[TheConn] = 2
    /\ stdout = "Error in message callback:"

(***************************************************************************)
(* SpecTagged: one connection receiving, on the stream and the datagram    *)
(* primitive, frames whose first byte is any of the tags 0, 1, 2, so that  *)
(* the tag may differ from the primitive the frame arrives on.             *)
(***************************************************************************)
Tags == {UNRELIABLE, RELIABLE, 2}

ReceiveTagged ==
    /\ TotalArrivals < MaxArrivals
    /\ \E reliable \in BOOLEAN, tag \in Tags, q \in Seqs :
          quic_event_received(TheConn, EncodeFrame(tag, q, 0, json_dumps(0)),
                              reliable)

NextTagged ==
    \/ ReceiveTagged
    \/ RunHandlePacket
    \/ RunSendPacket
    \/ RunResume
    \/ WakeAny

SpecTagged == Init /\ [][NextTagged]_vars

(***************************************************************************)
(* C30: handling a frame of sufficient length and decodable payload        *)
(* counts it in the protocol metrics of the channel it arrived on, the     *)
(* reliable channel for a stream frame and the unreliable channel for a    *)
(* datagram, and leaves the metrics of the other channel as they were,     *)
(* whatever the tag in the frame's first byte.                             *)
(***************************************************************************)
C30_MetricsFollowPrimitive ==
    [][\A c \in Conns :
          (/\ RunHandlePacket
           /\ Head(ready).conn = c
           /\ Len(Head(ready).packet) >= header_len
           /\ json_ok(Slice(Head(ready).packet, header_len,
                            Len(Head(ready).packet))))
          => /\ metrics'[c][ChannelOf(Head(ready).reliable)].packets_received
                   = metrics[c][ChannelOf(Head(ready).reliable)].packets_received + 1
             /\ metrics'[c][ChannelOf(~Head(ready).reliable)]
                   = metrics[c][ChannelOf(~Head(ready).reliable)]]_vars

(***************************************************************************)
(* C31: at every point where a connection has no arrival-handling task in  *)
(* progress and no send task pending, the protocol's packets_sent counter  *)
(* of each channel equals the number of frames the handler was invoked     *)
(* for on that channel: one frame is sent per delivered frame.             *)
(***************************************************************************)
C31_OneAckPerDelivery ==
    \A c \in Conns, reliable \in BOOLEAN :
        (Quiescent(c) /\ AcksScheduled(c, reliable) = <<>>)
        => metrics[c][ChannelOf(reliable)].packets_sent
              = Len(DeliveredSeqs(c, reliable))

====
